---------------------------- MODULE Spec2Model ----------------------------
(***************************************************************************)
(* A model of tinygif: the byte parser primitives (src/src/parser.rs), the *)
(* sub-block view, header/segment parser, frame iterator and draw driver   *)
(* (src/src/lib.rs), the bit stream (src/src/bitstream.rs) and the LZW     *)
(* decoder with its dictionary (src/src/lzw.rs).                           *)
(*                                                                         *)
(* Rust values are modelled as follows.  A slice &[u8] is a sequence of    *)
(* numbers in 0..255.  Result<T,E> / Option<T> / a panic are records with  *)
(* a field k: "Ok" (Some), "None", "Err" (with err), "Trap" (a panic:      *)
(* unwrap() on None/Err, unimplemented!(), an index out of range).         *)
(* u8/u16 arithmetic keeps its width.                                      *)
(***************************************************************************)
EXTENDS Integers, Sequences, FiniteSets, TLC

VARIABLES
    dec,        \* lzw::Decoder under test (SpecLzw, SpecLong)
    last,       \* what the latest decode_next() returned
    out,        \* concatenation of all slices decode_next() has returned
    src,        \* how the decoder's input was made: [kind |-> "encoded", m, data]
                \* (the encoding of the index sequence data), "raw", "fill";
                \* for a file [kind |-> "gif", header, segs, tail]
    mode,       \* which machine this behaviour runs: "lzw" | "gif" | "view" |
                \* "bits" | "header" | "eat"
    gif,        \* the RawGif parsed from the file (Spec)
    it,         \* the FrameIterator: frame_index, remain_raw_data
    ret,        \* what the latest next() returned
    frames,     \* every frame next() has yielded, in order
    drawn,      \* what drawing the latest frame did: [k, log, images]
    unit        \* the object under test of SpecUnits: a sub-block view, a
                \* BitStream, or the input of a parser function

vars == <<dec, last, out, src, mode, gif, it, ret, frames, drawn, unit>>

-----------------------------------------------------------------------------
(* Machine integers *)

U8  == 256
U16 == 65536

RECURSIVE Pow2(_)
Pow2(n) == IF n = 0 THEN 1 ELSE 2 * Pow2(n - 1)

\* a >> n and a << n on u16 (a shift of a u16 drops the bits pushed out)
Shr(a, n) == a \div Pow2(n)
Shl16(a, n) == (a * Pow2(n)) % U16

Bit(a, i) == (a \div Pow2(i)) % 2

RECURSIVE OrBits(_, _, _)
OrBits(a, b, i) ==
    IF i = 16 THEN 0
    ELSE (IF Bit(a, i) = 1 \/ Bit(b, i) = 1 THEN Pow2(i) ELSE 0) + OrBits(a, b, i + 1)

\* a | b on u16
Or16(a, b) == OrBits(a, b, 0)

\* a value given a name: F(x)
Bind(x, F(_)) == F(x)

Drop(s, n) == SubSeq(s, n + 1, Len(s))
Take(s, n) == SubSeq(s, 1, n)

Reverse(s) == [i \in 1..Len(s) |-> s[Len(s) + 1 - i]]


-----------------------------------------------------------------------------
(* Byte sources: the Iterator<Item = u8> a BitStream reads.                *)
(*   kind "seq"   a slice iterator over data (a sequence of bytes)         *)
(*   kind "fill"  a slice iterator over a buffer given by rule: byte i is  *)
(*                RuleByte(rule, i), len bytes in all (a long buffer is    *)
(*                not stored in every state)                               *)
(*   kind "view"  LenPrefixRawDataView over a sub-block chain              *)

\* Bits of the code stream  clear 0 6 7 8 9 ... RampTop 0 0 ...  for min code
\* size 2, the code in the place of c >= 8 written in bitlen(c) bits (the
\* widths decode_next reads them with).  Up to RampTop these are the codes a
\* GIF encoder emits for a long run of index 0: each code is the entry the
\* decoder is about to add, one byte longer than the one before.
\* the last code of the ramp: its entry is 1024 bytes long
RampTop == 1028
RampPrefix == 4 + 0 * 8 + 6 * 64 + 7 * 512
\* the four codes  clear 0 6 7  of three bits each
RampPrefixBits == 4 * 3

RECURSIVE RampBase(_)
\* bit offset of the first code of width w (w >= 4)
RampBase(w) == IF w = 4 THEN RampPrefixBits
               ELSE RampBase(w - 1) + (w - 1) * Pow2(w - 2)

RECURSIVE RampWidth(_, _)
RampWidth(j, w) == IF j < RampBase(w + 1) THEN w ELSE RampWidth(j, w + 1)

RampBit(j) ==
    IF j < RampPrefixBits THEN Bit(RampPrefix, j)
    ELSE LET w == RampWidth(j, 4)
             c == Pow2(w - 1) + ((j - RampBase(w)) \div w)
         IN  IF c > RampTop THEN 0 ELSE Bit(c, (j - RampBase(w)) % w)

RECURSIVE BitsToByte(_, _)
BitsToByte(j, b) == IF b = 8 THEN 0 ELSE RampBit(j + b) * Pow2(b) + BitsToByte(j, b + 1)

RuleByte(rule, i) ==
    CASE rule = "clear_then_zeros" -> IF i = 1 THEN 4 ELSE 0
      [] rule = "ramp"             -> BitsToByte(8 * (i - 1), 0)


SeqSource(data) == [kind |-> "seq", data |-> data, pos |-> 0]
FillSource(rule, len) == [kind |-> "fill", rule |-> rule, len |-> len, pos |-> 0]

-----------------------------------------------------------------------------
(* LenPrefixRawDataView, lib.rs 19-78 *)

\* LenPrefixRawDataView::new; data[0] and the two slices trap when out of range
View_new(data) ==
    IF Len(data) = 0 \/ Len(data) < 1 + data[1] THEN [k |-> "Trap"]
    ELSE [k |-> "Ok",
          v |-> [kind |-> "view",
                 remains |-> Drop(data, 1 + data[1]),
                 current_block |-> SubSeq(data, 2, 1 + data[1]),
                 cursor |-> 0]]

\* a variant of shift_next_block whose new block starts at the length byte
ShiftKeepsLength(v) ==
    IF Len(v.current_block) = 0 THEN [k |-> "Ok", v |-> v]
    ELSE IF Len(v.remains) = 0 THEN [k |-> "Trap"]
    ELSE IF v.remains[1] = 0
         THEN [k |-> "Ok", v |-> [v EXCEPT !.remains = <<>>, !.current_block = <<>>]]
         ELSE IF Len(v.remains) < 1 + v.remains[1] THEN [k |-> "Trap"]
         ELSE [k |-> "Ok",
               v |-> [v EXCEPT !.current_block = SubSeq(v.remains, 1, v.remains[1]),
                               !.remains = Drop(v.remains, 1 + v.remains[1])]]

\* a variant of shift_next_block that takes what follows the zero length
\* byte as one more block
ShiftPastTerminator(v) ==
    IF Len(v.current_block) = 0 THEN [k |-> "Ok", v |-> v]
    ELSE IF Len(v.remains) = 0 THEN [k |-> "Trap"]
    ELSE IF v.remains[1] = 0
         THEN [k |-> "Ok", v |-> [v EXCEPT !.remains = <<>>,
                                           !.current_block = Drop(v.remains, 1)]]
         ELSE IF Len(v.remains) < 1 + v.remains[1] THEN [k |-> "Trap"]
         ELSE [k |-> "Ok",
               v |-> [v EXCEPT !.current_block = SubSeq(v.remains, 2, 1 + v.remains[1]),
                               !.remains = Drop(v.remains, 1 + v.remains[1])]]

\* shift_next_block: [k |-> "Ok", v] | [k |-> "Trap"] (remains[0] and the
\* slices of remains are bounds-checked)
shift_next_block(v) ==
    IF Len(v.current_block) = 0 THEN [k |-> "Ok", v |-> v]
    ELSE IF Len(v.remains) = 0 THEN [k |-> "Trap"]
    ELSE IF v.remains[1] = 0
         THEN [k |-> "Ok", v |-> [v EXCEPT !.remains = <<>>, !.current_block = <<>>]]
         ELSE IF Len(v.remains) < 1 + v.remains[1] THEN [k |-> "Trap"]
         ELSE [k |-> "Ok",
               v |-> [v EXCEPT !.current_block = SubSeq(v.remains, 2, 1 + v.remains[1]),
                               !.remains = Drop(v.remains, 1 + v.remains[1])]]

\* shift_cursor; current_block.len() as u8 - 1 is u8 arithmetic
shift_cursor(v) ==
    IF Len(v.current_block) = 0 THEN [k |-> "Ok", v |-> v]
    ELSE IF v.cursor < (Len(v.current_block) % U8) - 1
         THEN [k |-> "Ok", v |-> [v EXCEPT !.cursor = v.cursor + 1]]
         ELSE shift_next_block([v EXCEPT !.cursor = 0])

\* Iterator::next of the view: [k |-> "Some", val, r] | [k |-> "None", r] | [k |-> "Trap"]
View_next(v) ==
    IF Len(v.current_block) = 0 THEN [k |-> "None", r |-> v]
    ELSE IF v.cursor + 1 > Len(v.current_block) THEN [k |-> "Trap"]
    ELSE Bind(shift_cursor(v), LAMBDA v2 :
             IF v2.k = "Trap" THEN [k |-> "Trap"]
             ELSE [k |-> "Some", val |-> v.current_block[v.cursor + 1], r |-> v2.v])

\* r.next() of whichever byte source the bit stream holds
Source_next(r) ==
    CASE r.kind = "view" -> View_next(r)
      [] r.kind = "seq"  ->
            IF r.pos < Len(r.data)
            THEN [k |-> "Some", val |-> r.data[r.pos + 1], r |-> [r EXCEPT !.pos = r.pos + 1]]
            ELSE [k |-> "None", r |-> r]
      [] r.kind = "fill" ->
            IF r.pos < r.len
            THEN [k |-> "Some", val |-> RuleByte(r.rule, r.pos + 1),
                  r |-> [r EXCEPT !.pos = r.pos + 1]]
            ELSE [k |-> "None", r |-> r]

-----------------------------------------------------------------------------
(* BitStream, bitstream.rs *)

BitStream_new(r) == [r |-> r, byte |-> 0, bit_cursor |-> 8]

RECURSIVE FillBits(_, _, _, _)
\* the loop  while bits_fullfilled < nbit  of next_bits (lines 38-42) and
\* the lines after it
FillBits(bs, res, bits_fullfilled, nbit) ==
    IF bits_fullfilled < nbit
    THEN Bind(Source_next(bs.r), LAMBDA n :
         IF n.k = "Trap" THEN [k |-> "Trap"]
         ELSE IF n.k = "None" THEN [k |-> "None", bs |-> [bs EXCEPT !.r = n.r]]
         ELSE FillBits([bs EXCEPT !.r = n.r, !.byte = n.val],
                       Or16(res, Shl16(n.val, bits_fullfilled)),
                       bits_fullfilled + 8, nbit))
    ELSE IF nbit - (bits_fullfilled - 8) > 8 THEN [k |-> "Trap"]
    ELSE [k |-> "Some", val |-> res % Pow2(nbit),
          bs |-> [bs EXCEPT !.bit_cursor = nbit - (bits_fullfilled - 8)]]

\* lines 30-47 of next_bits, a byte being loaded
TakeBits(bs, nbit) ==
    IF 8 - bs.bit_cursor >= nbit
    THEN [k |-> "Some", val |-> Shr(bs.byte, bs.bit_cursor) % Pow2(nbit),
          bs |-> [bs EXCEPT !.bit_cursor = bs.bit_cursor + nbit]]
    ELSE FillBits(bs, Shr(bs.byte, bs.bit_cursor), 8 - bs.bit_cursor, nbit)

\* BitStream::next_bits: [k |-> "Some", val, bs] | [k |-> "None", bs] | [k |-> "Trap"]
next_bits(bs, nbit) ==
    IF nbit >= 16 THEN [k |-> "Trap"]
    ELSE IF bs.bit_cursor = 8
    THEN Bind(Source_next(bs.r), LAMBDA f :
         IF f.k = "Trap" THEN [k |-> "Trap"]
         ELSE IF f.k = "None" THEN [k |-> "None", bs |-> [bs EXCEPT !.r = f.r]]
         ELSE TakeBits([bs EXCEPT !.r = f.r, !.byte = f.val, !.bit_cursor = 0], nbit))
    ELSE TakeBits(bs, nbit)

-----------------------------------------------------------------------------
(* DecodingDict, lzw.rs 5-96 *)

MAX_CODESIZE == 12
MAX_ENTRIES == Pow2(MAX_CODESIZE)
CODE_NONE == 65535
\* capacities of the two heapless::Vec of DecodingDict (lines 21, 22)
TABLE_CAP == 4096
BUFFER_CAP == 1024

DecodingDict_new(min_size) == [min_size |-> min_size, table |-> <<>>, buffer |-> <<>>]

\* reset: the roots (CODE_NONE, i as u8), each push unwrapped (min_size is
\* below 16 in every input used here, so 1u16 << min_size does not overflow)
reset(dict) ==
    IF Pow2(dict.min_size) > TABLE_CAP THEN [k |-> "Trap"]
    ELSE [k |-> "Ok",
          d |-> [dict EXCEPT !.table = [i \in 1..Pow2(dict.min_size) |->
                                            <<CODE_NONE, (i - 1) % U8>>]]]

\* a variant of push that stores the byte without the link to its prefix
PushWithoutPrev(dict, key, value) ==
    IF Len(dict.table) >= TABLE_CAP THEN [k |-> "Trap"]
    ELSE [k |-> "Ok", d |-> [dict EXCEPT !.table = Append(dict.table, <<CODE_NONE, value>>)]]

\* push: self.table.push((key, value)).unwrap()
push(dict, key, value) ==
    IF Len(dict.table) >= TABLE_CAP THEN [k |-> "Trap"]
    ELSE [k |-> "Ok", d |-> [dict EXCEPT !.table = Append(dict.table, <<key, value>>)]]

next_code(dict) == Len(dict.table) % U16

\* One pass of the loop  while code != CODE_NONE  of reconstruct (lines
\* 68-80) on s = [code, buffer, st]; st is "run" while the loop goes on,
\* "done" when it left, "err" at return Err, "trap" at a panic
\* (self.table[code] out of range, buffer.push(cha).unwrap() on a full buffer).
ReconStep(table, s) ==
    IF s.st # "run" THEN s
    ELSE IF s.code = CODE_NONE THEN [s EXCEPT !.st = "done"]
    ELSE IF Len(s.buffer) >= MAX_ENTRIES THEN [s EXCEPT !.st = "err"]
    ELSE IF s.code + 1 > Len(table) THEN [s EXCEPT !.st = "trap"]
    ELSE IF Len(s.buffer) >= BUFFER_CAP THEN [s EXCEPT !.st = "trap"]
    ELSE [code |-> table[s.code + 1][1],
          buffer |-> Append(s.buffer, table[s.code + 1][2]),
          st |-> "run"]

RECURSIVE ReconLoop(_, _, _)
\* at most n passes of the loop (split in halves: the passes are run in
\* order, the nesting only keeps the evaluation shallow)
ReconLoop(table, s, n) ==
    IF s.st # "run" \/ n = 0 THEN s
    ELSE IF n = 1 THEN ReconStep(table, s)
    ELSE ReconLoop(table, ReconLoop(table, s, n \div 2), n - (n \div 2))

\* the loop ends within MAX_ENTRIES + 1 passes: each pass but the last pushes
\* a byte and a pass that finds MAX_ENTRIES bytes returns Err
ReconPasses == MAX_ENTRIES + 2

\* lines 81-82 and the returns of the loop
ReconResult(dict, s) ==
    CASE s.st = "done" -> [k |-> "Ok", d |-> [dict EXCEPT !.buffer = Reverse(s.buffer)]]
      [] s.st = "err"  -> [k |-> "Err", err |-> "InvalidByte",
                           d |-> [dict EXCEPT !.buffer = s.buffer]]
      [] OTHER         -> [k |-> "Trap"]

\* reconstruct: [k |-> "Ok" | "Err" | "Trap", d] with the bytes in d.buffer
reconstruct(dict, code) ==
    IF code # CODE_NONE /\ code + 1 > Len(dict.table)
    THEN [k |-> "Err", err |-> "InvalidByte", d |-> [dict EXCEPT !.buffer = <<>>]]
    ELSE ReconResult(dict,
            ReconLoop(dict.table,
                      IF code # CODE_NONE
                      THEN [code |-> dict.table[code + 1][1],
                            buffer |-> <<dict.table[code + 1][2]>>, st |-> "run"]
                      ELSE [code |-> code, buffer |-> <<>>, st |-> "run"],
                      ReconPasses))

-----------------------------------------------------------------------------
(* Decoder, lzw.rs 98-173 *)

Decoder_new(r, min_code_size) ==
    [bs |-> BitStream_new(r),
     prev |-> CODE_NONE,
     table |-> DecodingDict_new(min_code_size),
     buf |-> <<0>>,
     code_size |-> min_code_size + 1,
     min_code_size |-> min_code_size,
     clear_code |-> Shl16(1, min_code_size),
     end_code |-> Shl16(1, min_code_size) + 1]

\* a push on the result of a dictionary operation that may have trapped
ThenPush(r, key, value) == IF r.k = "Ok" THEN push(r.d, key, value) ELSE r

\* a variant of DecodeClear that does not push the two reserved entries
ClearWithoutReserved(d) ==
    Bind(reset(d.table), LAMBDA r :
        IF r.k # "Ok" THEN [k |-> "Trap"]
        ELSE [k |-> "Some", out |-> <<>>,
              d |-> [d EXCEPT !.table = r.d,
                              !.code_size = d.min_code_size + 1,
                              !.prev = CODE_NONE]])

\* the clear-code branch (lines 136-141)
DecodeClear(d) ==
    Bind(ThenPush(ThenPush(reset(d.table), CODE_NONE, 0), CODE_NONE, 0), LAMBDA r :
        IF r.k # "Ok" THEN [k |-> "Trap"]
        ELSE [k |-> "Some", out |-> <<>>,
              d |-> [d EXCEPT !.table = r.d,
                              !.code_size = d.min_code_size + 1,
                              !.prev = CODE_NONE]])

\* what a branch returns when a dictionary operation r did not succeed:
\* ? on Err, a panic otherwise
Failed(d, r) ==
    IF r.k = "Err" THEN [k |-> "Err", err |-> r.err, d |-> [d EXCEPT !.table = r.d]]
    ELSE [k |-> "Trap"]

\* the branch  code == next_code  (lines 155-157)
DecodeKwKwK(d, code) ==
    Bind(reconstruct(d.table, d.prev), LAMBDA rp :
    IF rp.k # "Ok" THEN Failed(d, rp)
    ELSE IF Len(rp.d.buffer) = 0 THEN [k |-> "Trap"]
    ELSE Bind(push(rp.d, d.prev, rp.d.buffer[1]), LAMBDA pu :
         IF pu.k # "Ok" THEN [k |-> "Trap"]
         ELSE Bind(reconstruct(pu.d, code), LAMBDA rc :
              IF rc.k # "Ok" THEN Failed(d, rc)
              ELSE [k |-> "Some", out |-> rc.d.buffer, d |-> [d EXCEPT !.table = rc.d]])))

\* the branch  code < next_code  (lines 159-161)
DecodeKnown(d, code) ==
    Bind(reconstruct(d.table, code), LAMBDA rc :
    IF rc.k # "Ok" THEN Failed(d, rc)
    ELSE IF Len(rc.d.buffer) = 0 THEN [k |-> "Trap"]
    ELSE Bind(push(rc.d, d.prev, rc.d.buffer[1]), LAMBDA pu :
         IF pu.k # "Ok" THEN [k |-> "Trap"]
         ELSE [k |-> "Some", out |-> pu.d.buffer, d |-> [d EXCEPT !.table = pu.d]]))

\* a variant of GrowAndLatch that latches prev and leaves the width alone
LatchOnly(d, code, n) == [d EXCEPT !.prev = code]

\* a variant of GrowAndLatch that grows the width one entry later
GrowLate(d, code, n) ==
    [d EXCEPT !.code_size = IF n = Pow2(d.code_size) /\ d.code_size < MAX_CODESIZE
                            THEN d.code_size + 1 ELSE d.code_size,
              !.prev = code]

\* lines 166-169: the width grows after the step, then prev is latched
GrowAndLatch(d, code, n) ==
    [d EXCEPT !.code_size = IF n = Pow2(d.code_size) - 1 /\ d.code_size < MAX_CODESIZE
                            THEN d.code_size + 1 ELSE d.code_size,
              !.prev = code]

\* lines 149-165: the slice of a data code
DecodeSlice(d, code, n) ==
    IF d.prev = CODE_NONE
    THEN [k |-> "Some", out |-> <<code % U8>>, d |-> [d EXCEPT !.buf = <<code % U8>>]]
    ELSE IF code = n THEN DecodeKwKwK(d, code)
    ELSE DecodeKnown(d, code)

\* the data-code branch (lines 145-170)
DecodeData(d, code) ==
    IF code > next_code(d.table) THEN [k |-> "Err", err |-> "InvalidByte", d |-> d]
    ELSE Bind(DecodeSlice(d, code, next_code(d.table)), LAMBDA r :
             IF r.k = "Some"
             THEN [k |-> "Some", out |-> r.out,
                   d |-> GrowAndLatch(r.d, code, next_code(d.table))]
             ELSE r)

\* a variant of DecodeEnd that clears the previous-code latch
EndClearsLatch(d) == [k |-> "Some", out |-> <<>>, d |-> [d EXCEPT !.prev = CODE_NONE]]

\* the end-code branch (lines 142-143)
DecodeEnd(d) == [k |-> "Some", out |-> <<>>, d |-> d]

\* lines 135-171, the code being read
DecodeCode(d, code) ==
    IF code = d.clear_code THEN DecodeClear(d)
    ELSE IF code = d.end_code THEN DecodeEnd(d)
    ELSE DecodeData(d, code)

\* a variant of EndOfStream that reports the end of the bytes as an error
EndIsError(d, nb) ==
    [k |-> "Err", err |-> "UnexpectedEndOfFile", d |-> [d EXCEPT !.bs = nb.bs]]

\* lines 130-133: next_bits returned None (nb is what it returned)
EndOfStream(d, nb) == [k |-> "None", d |-> [d EXCEPT !.bs = nb.bs]]

\* Decoder::decode_next:
\*   [k |-> "Some", out, d]   Ok(Some(slice))
\*   [k |-> "None", d]        Ok(None), end of stream
\*   [k |-> "Err", err, d]    Err(err)
\*   [k |-> "Trap"]           a panic
decode_next(d) ==
    Bind(next_bits(d.bs, d.code_size), LAMBDA nb :
        IF nb.k = "Trap" THEN [k |-> "Trap"]
        ELSE IF nb.k = "None" THEN EndOfStream(d, nb)
        ELSE DecodeCode([d EXCEPT !.bs = nb.bs], nb.val))

-----------------------------------------------------------------------------
(* Byte parser primitives, parser.rs.  A result is                          *)
(*   [k |-> "Ok", rest, val] | [k |-> "Err", err] | [k |-> "Trap"]          *)

Ok(rest, val) == [k |-> "Ok", rest |-> rest, val |-> val]
Err(e) == [k |-> "Err", err |-> e]
Trap == [k |-> "Trap"]

take1(input) ==
    IF Len(input) >= 1 THEN Ok(Tail(input), input[1]) ELSE Err("UnexpectedEndOfFile")

take(N, input) ==
    IF Len(input) >= N THEN Ok(Drop(input, N), Take(input, N))
    ELSE Err("UnexpectedEndOfFile")

\* a variant of take_slice that hands out what is left of a short input
TakeSliceShort(input, length) ==
    IF Len(input) >= length THEN Ok(Drop(input, length), Take(input, length))
    ELSE Ok(<<>>, input)

take_slice(input, length) ==
    IF Len(input) >= length THEN Ok(Drop(input, length), Take(input, length))
    ELSE Err("UnexpectedEndOfFile")

le_u16(input) ==
    Bind(take(2, input), LAMBDA t :
        IF t.k # "Ok" THEN t ELSE Ok(t.rest, t.val[1] + U8 * t.val[2]))

\* a variant of eat_len_prefixed_subblocks that stops at the first zero byte
\* wherever it lies
RECURSIVE EatToFirstZero(_)
EatToFirstZero(input0) ==
    Bind(take1(input0), LAMBDA t :
        IF t.k # "Ok" THEN t
        ELSE IF t.val = 0 THEN Ok(t.rest, <<>>)
        ELSE EatToFirstZero(t.rest))

RECURSIVE eat_len_prefixed_subblocks(_)
eat_len_prefixed_subblocks(input0) ==
    Bind(take1(input0), LAMBDA t :
        IF t.k # "Ok" THEN t
        ELSE IF t.val = 0 THEN Ok(t.rest, <<>>)
        ELSE IF Len(t.rest) < t.val THEN Err("UnexpectedEndOfFile")
        ELSE eat_len_prefixed_subblocks(Drop(t.rest, t.val)))

RECURSIVE SkipBlocks(_, _)
\* the loop over the sub-blocks written out in ImageBlock::parse (lines
\* 263-274) and ExtensionBlock::parse (326-335, 364-373): val is the number
\* of bytes the blocks take, n counted as at line 272
SkipBlocks(input0, n) ==
    Bind(take1(input0), LAMBDA t :
        IF t.k # "Ok" THEN t
        ELSE IF t.val = 0 THEN Ok(t.rest, n)
        ELSE Bind(take_slice(t.rest, t.val), LAMBDA u :
                 IF u.k # "Ok" THEN u ELSE SkipBlocks(u.rest, n + t.val + 1)))

-----------------------------------------------------------------------------
(* Header, ColorTable, RawGif, lib.rs 80-214 *)

B_GIF == <<71, 73, 70>>
B_87a == <<56, 55, 97>>
B_89a == <<56, 57, 97>>

None == [some |-> FALSE]
Some(v) == [some |-> TRUE, v |-> v]

ColorTable_new(data) == [data |-> data]

\* ColorTable::get: None past the end, else the entry <<r, g, b>>
ColorTable_get(ct, index) ==
    IF 3 * index >= Len(ct.data) THEN None
    ELSE Some(<<ct.data[3 * index + 1], ct.data[3 * index + 2], ct.data[3 * index + 3]>>)

\* lines 119-153, the signature having been read
HeaderBody(version, input) ==
    Bind(le_u16(input), LAMBDA w :
    IF w.k # "Ok" THEN w ELSE
    Bind(le_u16(w.rest), LAMBDA h :
    IF h.k # "Ok" THEN h ELSE
    Bind(take1(h.rest), LAMBDA f :
    IF f.k # "Ok" THEN f ELSE
    Bind(take1(f.rest), LAMBDA bg :
    IF bg.k # "Ok" THEN bg ELSE
    Bind(take1(bg.rest), LAMBDA ar :
    IF ar.k # "Ok" THEN ar ELSE
    Bind(IF Bit(f.val, 7) = 1
         THEN take_slice(ar.rest, 3 * Pow2((f.val % 8) + 1))
         ELSE Ok(ar.rest, <<>>), LAMBDA ct :
    IF ct.k # "Ok" THEN ct ELSE
    Ok(ct.rest,
       [header |-> [version |-> version, width |-> w.val, height |-> h.val,
                    has_global_color_table |-> (Bit(f.val, 7) = 1),
                    color_resolution |-> (f.val \div 16) % 8,
                    bg_color_index |-> bg.val],
        color_table |-> IF Bit(f.val, 7) = 1 THEN Some(ColorTable_new(ct.val))
                        ELSE None])))))))

Header_parse(input) ==
    Bind(take(3, input), LAMBDA magic :
    IF magic.k # "Ok" THEN magic
    ELSE IF magic.val # B_GIF THEN Err("InvalidFileSignature")
    ELSE Bind(take(3, magic.rest), LAMBDA ver :
         IF ver.k # "Ok" THEN ver
         ELSE IF ver.val = B_87a THEN HeaderBody("V87a", ver.rest)
         ELSE IF ver.val = B_89a THEN HeaderBody("V89a", ver.rest)
         ELSE Err("InvalidFileSignature")))

\* RawGif::from_slice / Gif::from_slice
Gif_from_slice(bytes) ==
    Bind(Header_parse(bytes), LAMBDA h :
        IF h.k # "Ok" THEN h
        ELSE [k |-> "Ok", header |-> h.val.header,
              global_color_table |-> h.val.color_table, image_data |-> h.rest])

-----------------------------------------------------------------------------
(* ImageBlock, ExtensionBlock, Segment, lib.rs 216-418 *)

\* lines 261-288, the descriptor fields d (left, top, width, height, flags)
\* and the local colour table having been read
ImageData(d, lct, input) ==
    Bind(take1(input), LAMBDA mcs :
    IF mcs.k # "Ok" THEN mcs ELSE
    Bind(SkipBlocks(mcs.rest, 1), LAMBDA blocks :
    IF blocks.k # "Ok" THEN blocks ELSE
    Ok(blocks.rest,
       [left |-> d[1], top |-> d[2], width |-> d[3], height |-> d[4],
        is_interlaced |-> (Bit(d[5], 6) = 1),
        lzw_min_code_size |-> mcs.val,
        local_color_table |-> lct,
        image_data |-> Take(mcs.rest, blocks.val)])))

\* lines 245-259: the local colour table
ImageTable(d, input) ==
    IF Bit(d[5], 7) = 1
    THEN Bind(take_slice(input, 3 * Pow2((d[5] % 8) + 1)), LAMBDA t :
             IF t.k # "Ok" THEN t ELSE ImageData(d, Some(ColorTable_new(t.val)), t.rest))
    ELSE ImageData(d, None, input)

\* ImageBlock::parse (after the 0x2c separator)
ImageBlock_parse(input) ==
    Bind(le_u16(input), LAMBDA left :
    IF left.k # "Ok" THEN left ELSE
    Bind(le_u16(left.rest), LAMBDA top :
    IF top.k # "Ok" THEN top ELSE
    Bind(le_u16(top.rest), LAMBDA width :
    IF width.k # "Ok" THEN width ELSE
    Bind(le_u16(width.rest), LAMBDA height :
    IF height.k # "Ok" THEN height ELSE
    Bind(take1(height.rest), LAMBDA flags :
    IF flags.k # "Ok" THEN flags ELSE
    ImageTable(<<left.val, top.val, width.val, height.val, flags.val>>, flags.rest))))))

B_NETSCAPE == <<78, 69, 84, 83, 67, 65, 80, 69>>
B_2_0 == <<50, 46, 48>>

\* lines 311-324, inside  if block_size_1 == 11 && ...: a result returned
\* from parse, or [k |-> "Fall"] where the code falls through to line 326
Netscape(input) ==
    Bind(take1(input), LAMBDA bs2 :
    IF bs2.k # "Ok" THEN bs2
    ELSE IF bs2.val # 3 THEN [k |-> "Fall"]
    ELSE Bind(take1(bs2.rest), LAMBDA one :
         IF one.k # "Ok" THEN one
         ELSE IF one.val # 1 THEN [k |-> "Fall"]
         ELSE Bind(le_u16(one.rest), LAMBDA rep :
              IF rep.k # "Ok" THEN rep
              ELSE Bind(take1(rep.rest), LAMBDA eob :
                   IF eob.k # "Ok" THEN eob
                   ELSE IF eob.val # 0 THEN [k |-> "Fall"]
                   ELSE Ok(eob.rest,
                           [e |-> "NetscapeApplication", repetitions |-> rep.val])))))

\* lines 326-336
ApplicationSkip(input) ==
    Bind(SkipBlocks(input, 0), LAMBDA b :
        IF b.k # "Ok" THEN b ELSE Ok(b.rest, [e |-> "Application"]))

\* the arm 0xff (lines 306-337)
Application(input) ==
    Bind(take1(input), LAMBDA bs1 :
    IF bs1.k # "Ok" THEN bs1 ELSE
    Bind(take(8, bs1.rest), LAMBDA app_id :
    IF app_id.k # "Ok" THEN app_id ELSE
    Bind(take(3, app_id.rest), LAMBDA auth :
    IF auth.k # "Ok" THEN auth
    ELSE IF bs1.val = 11 /\ app_id.val = B_NETSCAPE /\ auth.val = B_2_0
    THEN Bind(Netscape(auth.rest), LAMBDA n :
             IF n.k = "Fall" THEN ApplicationSkip(auth.rest) ELSE n)
    ELSE ApplicationSkip(auth.rest))))

\* the arm 0xf9 (lines 338-361)
GraphicControl(input) ==
    Bind(take1(input), LAMBDA block_size :
    IF block_size.k # "Ok" THEN block_size
    ELSE IF block_size.val # 4 THEN Err("InvalidByte")
    ELSE Bind(take1(block_size.rest), LAMBDA flags :
    IF flags.k # "Ok" THEN flags ELSE
    Bind(le_u16(flags.rest), LAMBDA delay :
    IF delay.k # "Ok" THEN delay ELSE
    Bind(take1(delay.rest), LAMBDA tci :
    IF tci.k # "Ok" THEN tci ELSE
    Bind(take1(tci.rest), LAMBDA term :
    IF term.k # "Ok" THEN term
    ELSE IF term.val # 0 THEN Err("InvalidByte")
    ELSE Ok(term.rest,
            [e |-> "GraphicControl",
             is_transparent |-> (Bit(flags.val, 0) = 1),
             transparent_color_index |-> tci.val,
             delay_centis |-> delay.val]))))))

\* the arm 0xfe (lines 362-375)
Comment(input) ==
    Bind(SkipBlocks(input, 0), LAMBDA b :
        IF b.k # "Ok" THEN b ELSE Ok(b.rest, [e |-> "Comment", data |-> Drop(input, 1)]))

\* ExtensionBlock::parse; any other label reaches unimplemented!()
ExtensionBlock_parse(input) ==
    Bind(take1(input), LAMBDA ext_label :
        IF ext_label.k # "Ok" THEN ext_label
        ELSE CASE ext_label.val = 255 -> Application(ext_label.rest)
               [] ext_label.val = 249 -> GraphicControl(ext_label.rest)
               [] ext_label.val = 254 -> Comment(ext_label.rest)
               [] OTHER -> Trap)

\* the value of a parse wrapped as a segment
AsSegment(r, t) == IF r.k # "Ok" THEN r ELSE Ok(r.rest, [t |-> t, v |-> r.val])

\* a variant of TrailerSegment that takes the trailer byte whatever follows
TrailerAnywhere(input) == Ok(input, [t |-> "Trailer"])

\* lines 400-405: the trailer byte having been read
TrailerSegment(input) ==
    IF Len(input) = 0 THEN Ok(input, [t |-> "Trailer"])
    ELSE Err("JunkAfterTrailerByte")

\* Segment::parse
Segment_parse(input) ==
    Bind(take1(input), LAMBDA ext_magic :
        IF ext_magic.k # "Ok" THEN ext_magic
        ELSE IF ext_magic.val = 33
             THEN AsSegment(ExtensionBlock_parse(ext_magic.rest), "Extension")
        ELSE IF ext_magic.val = 44
             THEN AsSegment(ImageBlock_parse(ext_magic.rest), "Image")
        ELSE IF ext_magic.val = 59
             THEN TrailerSegment(ext_magic.rest)
        ELSE Err("InvalidByte"))

IsGraphicControl(seg) == seg.t = "Extension" /\ seg.v.e = "GraphicControl"

-----------------------------------------------------------------------------
(* FrameIterator, lib.rs 448-529 *)

FrameIterator_new(raw_gif) == [frame_index |-> 0, remain_raw_data |-> raw_gif.image_data]

\* a variant of LookAheadRemain that resumes after the GraphicControl the
\* look-ahead met, so that the walk of the next call starts past it
ResumeAfterMet(remain_data, input) == input

\* a variant of LookAheadRemain that leaves nothing to the next call
ResumeNowhere(remain_data, input) == <<>>

\* line 498: where the next call resumes when the look-ahead met a
\* GraphicControl; remain_data is the input just after the captured one and
\* input the input just after the one the look-ahead met
LookAheadRemain(remain_data, input) == remain_data

\* the inner loop (lines 486-510): the new remain_raw_data, or a panic
RECURSIVE LookAhead(_, _)
LookAhead(remain_data, input) ==
    Bind(Segment_parse(input), LAMBDA r :
        IF r.k = "Trap" THEN Trap
        ELSE IF r.k = "Err"
             THEN IF r.err = "JunkAfterTrailerByte"
                  THEN [k |-> "Ok", remain |-> <<>>]
                  ELSE Trap
        ELSE IF r.val.t = "Trailer" THEN [k |-> "Ok", remain |-> <<>>]
        ELSE IF IsGraphicControl(r.val)
             THEN [k |-> "Ok", remain |-> LookAheadRemain(remain_data, r.rest)]
        ELSE LookAhead(remain_data, r.rest))

\* lines 512-523
YieldFrame(self, raw_gif, ctrl, remain_data, la) ==
    IF la.k # "Ok" THEN Trap
    ELSE [k |-> "Some",
          frame |-> [delay_centis |-> ctrl.delay_centis,
                     is_transparent |-> ctrl.is_transparent,
                     transparent_color_index |-> ctrl.transparent_color_index,
                     global_color_table |-> raw_gif.global_color_table,
                     header |-> raw_gif.header,
                     raw_data |-> remain_data,
                     frame_index |-> self.frame_index],
          it |-> [frame_index |-> self.frame_index + 1,
                  remain_raw_data |-> la.remain]]

\* the outer loop (lines 473-527)
RECURSIVE Walk(_, _, _)
Walk(self, raw_gif, input) ==
    Bind(Segment_parse(input), LAMBDA r :
        IF r.k = "Trap" THEN Trap
        ELSE IF r.k = "Err" THEN [k |-> "None", it |-> self]
        ELSE IF r.val.t = "Trailer"
             THEN [k |-> "None", it |-> [self EXCEPT !.remain_raw_data = <<>>]]
        ELSE IF IsGraphicControl(r.val)
             THEN YieldFrame(self, raw_gif, r.val.v, r.rest, LookAhead(r.rest, r.rest))
        ELSE Walk(self, raw_gif, r.rest))

\* Iterator::next:
\*   [k |-> "Some", frame, it] | [k |-> "None", it] | [k |-> "Trap"]
FrameIterator_next(self, raw_gif) ==
    IF Len(self.remain_raw_data) = 0 THEN [k |-> "None", it |-> self]
    ELSE Walk(self, raw_gif, self.remain_raw_data)

-----------------------------------------------------------------------------
(* Frame::draw, lib.rs 555-611.  The draw target is a log: one entry per   *)
(* palette index the decoder produced, pushed or not.  checks tells        *)
(* whether the build traps on integer overflow (debug) or wraps (release). *)

\* a + b in w-bit arithmetic
AddWrapping(a, b, w, checks) ==
    IF a + b < w THEN [k |-> "Ok", v |-> a + b]
    ELSE IF checks THEN Trap
    ELSE [k |-> "Ok", v |-> (a + b) % w]

\* lines 598-602: the log entry of the index, or a panic
Emit(n, ct, tr, color_index, x, y) ==
    IF tr.some /\ tr.v = color_index
    THEN [k |-> "Ok", e |-> [n |-> n, index |-> color_index, pushed |-> FALSE,
                             x |-> x, y |-> y]]
    ELSE Bind(ColorTable_get(ct, color_index), LAMBDA color :
             IF ~color.some THEN Trap
             ELSE [k |-> "Ok", e |-> [n |-> n, index |-> color_index, pushed |-> TRUE,
                                      x |-> x, y |-> y, color |-> color.v]])

\* the closure of lines 592-603 on one index: [k |-> "Ok", e, idx] or a panic
\* (idx is a u32; the images drawn here are far too short to overflow it)
DrawIndex(n, img, ct, tr, color_index, idx, checks) ==
    IF img.width = 0 THEN Trap
    ELSE Bind(AddWrapping(img.left, (idx % img.width) % U16, U16, checks), LAMBDA x :
         IF x.k # "Ok" THEN Trap ELSE
         Bind(AddWrapping(img.top, (idx \div img.width) % U16, U16, checks), LAMBDA y :
         IF y.k # "Ok" THEN Trap ELSE
         Bind(Emit(n, ct, tr, color_index, x.v, y.v), LAMBDA e :
         IF e.k # "Ok" THEN Trap ELSE [k |-> "Ok", e |-> e.e, idx |-> idx + 1])))

\* draw_iter over one decoded slice; acc = [k, log, idx]
RECURSIVE DrawSlice(_, _, _, _, _, _, _)
DrawSlice(n, img, ct, tr, decoded, acc, checks) ==
    IF Len(decoded) = 0 THEN acc
    ELSE Bind(DrawIndex(n, img, ct, tr, decoded[1], acc.idx, checks), LAMBDA r :
             IF r.k # "Ok" THEN [acc EXCEPT !.k = "Trap"]
             ELSE DrawSlice(n, img, ct, tr, Drop(decoded, 1),
                            [acc EXCEPT !.log = Append(@, r.e), !.idx = r.idx], checks))

\* the loop of line 591
RECURSIVE DrawImageLoop(_, _, _, _, _, _, _)
DrawImageLoop(n, img, ct, tr, decoder, acc, checks) ==
    Bind(decode_next(decoder), LAMBDA r :
        IF r.k = "Trap" THEN [acc EXCEPT !.k = "Trap"]
        ELSE IF r.k # "Some" THEN acc
        ELSE Bind(DrawSlice(n, img, ct, tr, r.out, acc, checks), LAMBDA a :
                 IF a.k = "Trap" THEN a
                 ELSE DrawImageLoop(n, img, ct, tr, r.d, a, checks)))

\* lines 578-604: one Image Block
DrawImage(self, n, img, log, checks) ==
    Bind(IF img.local_color_table.some THEN img.local_color_table
         ELSE self.global_color_table, LAMBDA color_table :
    Bind(View_new(img.image_data), LAMBDA view :
        IF ~color_table.some \/ view.k # "Ok" THEN [k |-> "Trap", log |-> log, idx |-> 0]
        ELSE DrawImageLoop(n, img, color_table.v,
                           IF self.is_transparent
                           THEN Some(self.transparent_color_index) ELSE None,
                           Decoder_new(view.v, img.lzw_min_code_size),
                           [k |-> "Ok", log |-> log, idx |-> 0], checks)))

\* a variant of DrawStops with which the draw loop walks past every
\* GraphicControl
DrawNeverStops(seg) == FALSE

\* lines 563-566: the arm of the match that breaks out of the draw loop
DrawStops(seg) == IsGraphicControl(seg)

\* the loop of line 560; res = [k, log, images]
RECURSIVE DrawWalk(_, _, _, _)
DrawWalk(self, input, res, checks) ==
    Bind(Segment_parse(input), LAMBDA r :
        IF r.k = "Trap" THEN [res EXCEPT !.k = "Trap"]
        ELSE IF r.k # "Ok" THEN res
        ELSE IF DrawStops(r.val) THEN res
        ELSE IF r.val.t = "Image"
             THEN Bind(DrawImage(self, Len(res.images), r.val.v, res.log, checks), LAMBDA a :
                      IF a.k = "Trap"
                      THEN [k |-> "Trap", log |-> a.log, images |-> Append(res.images, r.val.v)]
                      ELSE DrawWalk(self, r.rest,
                                    [k |-> "Ok", log |-> a.log,
                                     images |-> Append(res.images, r.val.v)], checks))
        ELSE DrawWalk(self, r.rest, res, checks))

\* Frame::draw on a target that takes every pixel: [k |-> "Ok" | "Trap",
\* log, images], images being the Image Blocks met (entry n of the log
\* belongs to images[n + 1])
Frame_draw(self, checks) ==
    DrawWalk(self, self.raw_data, [k |-> "Ok", log |-> <<>>, images |-> <<>>], checks)

-----------------------------------------------------------------------------
(* A GIF LZW encoder, the reference the decoder's input is made with: a    *)
(* clear code, then the greedy longest-match codes, the end code, zero     *)
(* bits up to a byte boundary.  The code width grows after the data code   *)
(* that makes index 2^width the next one to assign (the rule giflib's      *)
(* encoder applies after every code it writes, the last one included).     *)

EncRoots(m) == [i \in 1..(Pow2(m) + 2) |-> IF i <= Pow2(m) THEN <<i - 1>> ELSE <<>>]

EncFind(dict, w) == CHOOSE c \in 0..(Len(dict) - 1) : dict[c + 1] = w
EncHas(dict, w) == \E c \in 0..(Len(dict) - 1) : dict[c + 1] = w

EncGrow(cs, n) == IF n = Pow2(cs) /\ cs < MAX_CODESIZE THEN cs + 1 ELSE cs

RECURSIVE EncLoop(_, _, _, _, _)
\* the codes <<code, width>> for the rest of the input, w being the match so far
EncLoop(m, dict, cs, w, rest) ==
    IF rest = <<>>
    THEN (IF w = <<>> THEN <<>> ELSE <<<<EncFind(dict, w), cs>>>>)
         \o <<<<Pow2(m) + 1, IF w = <<>> THEN cs ELSE EncGrow(cs, Len(dict))>>>>
    ELSE LET wk == Append(w, Head(rest)) IN
         IF EncHas(dict, wk) THEN EncLoop(m, dict, cs, wk, Tail(rest))
         ELSE <<<<EncFind(dict, w), cs>>>>
              \o EncLoop(m, Append(dict, wk), EncGrow(cs, Len(dict)), <<Head(rest)>>, Tail(rest))

EncCodes(m, data) == <<<<Pow2(m), m + 1>>>> \o EncLoop(m, EncRoots(m), m + 1, <<>>, data)

RECURSIVE CodeBits(_)
\* the bits of the codes, each code least significant bit first
CodeBits(codes) ==
    IF codes = <<>> THEN <<>>
    ELSE [i \in 1..Head(codes)[2] |-> Bit(Head(codes)[1], i - 1)] \o CodeBits(Tail(codes))

PackBits(bits) ==
    [i \in 1..((Len(bits) + 7) \div 8) |->
        LET B(j) == IF 8 * (i - 1) + j + 1 <= Len(bits)
                    THEN bits[8 * (i - 1) + j + 1] * Pow2(j) ELSE 0
        IN  B(0) + B(1) + B(2) + B(3) + B(4) + B(5) + B(6) + B(7)]

GifLzwEncode(m, data) == PackBits(CodeBits(EncCodes(m, data)))


-----------------------------------------------------------------------------
(* The decoder machine: a Decoder over one input, decode_next() called     *)
(* again and again.                                                        *)

\* bounds of the inputs
MaxSrcLen == 4
MaxRawLen == 2
\* length of the clear_then_zeros buffer (enough bytes for 4096 twelve-bit codes)
FillLen == 6200
\* length of the ramp buffer: the ramp up to RampTop and a few zero codes
RampLen == 1165

LzwMinSizes == {2, 3, 8}
Symbols(m) == {0, 1, Pow2(m) - 1}
RawBytes == {0, 4, 52, 68, 255}

SeqsUpTo(S, n) == UNION {[1..l -> S] : l \in 0..n}

\* the variables of the other machine
NoGif ==
    /\ gif = [k |-> "Unused"]
    /\ it = [k |-> "Unused"]
    /\ ret = [k |-> "Unused"]
    /\ frames = <<>>
    /\ drawn = [k |-> "Unused"]

NoLzw ==
    /\ dec = [k |-> "Unused"]
    /\ last = [k |-> "Unused"]
    /\ out = <<>>

NoUnit == unit = [k |-> "Unused"]

InitLzw ==
    /\ mode = "lzw"
    /\ NoGif
    /\ NoUnit
    /\ \E m \in LzwMinSizes :
         \/ \E data \in SeqsUpTo(Symbols(m), MaxSrcLen) :
              /\ src = [kind |-> "encoded", m |-> m, data |-> data]
              /\ dec = Decoder_new(SeqSource(GifLzwEncode(m, data)), m)
         \/ \E bytes \in SeqsUpTo(RawBytes, MaxRawLen) :
              /\ src = [kind |-> "raw", m |-> m, data |-> bytes]
              /\ dec = Decoder_new(SeqSource(bytes), m)
    /\ last = [k |-> "New"]
    /\ out = <<>>

InitLong ==
    /\ mode = "lzw"
    /\ NoGif
    /\ NoUnit
    /\ \E rule \in {"clear_then_zeros", "ramp"} :
         /\ src = [kind |-> "fill", m |-> 2, data |-> rule]
         /\ dec = Decoder_new(FillSource(rule, IF rule = "ramp" THEN RampLen ELSE FillLen), 2)
    /\ last = [k |-> "New"]
    /\ out = <<>>

\* one call of decode_next(); nothing runs after a panic.  The slices are
\* concatenated in out (not for the rule-made buffers, whose output is long).
\* the variables after decode_next() returned r
Returned(r) ==
    /\ dec' = IF r.k = "Trap" THEN dec ELSE r.d
    /\ last' = IF r.k = "Some" THEN [k |-> "Some", out |-> r.out]
               ELSE IF r.k = "Err" THEN [k |-> "Err", err |-> r.err]
               ELSE [k |-> r.k]
    /\ out' = IF r.k = "Some" /\ src.kind # "fill" THEN out \o r.out ELSE out

DecodeNext ==
    /\ mode = "lzw"
    /\ last.k # "Trap"
    /\ Returned(decode_next(dec))
    /\ UNCHANGED <<src, mode, gif, it, ret, frames, drawn, unit>>

NextLzw == DecodeNext

SpecLzw == InitLzw /\ [][NextLzw]_vars
SpecLong == InitLong /\ [][NextLzw]_vars


-----------------------------------------------------------------------------
(* The file machine: a GIF file is parsed, its frames are iterated and     *)
(* each yielded frame may be drawn.  Files are a header, up to MaxSegs     *)
(* segments out of a small library, and a tail.                            *)

MaxSegs == 3

\* a length-prefixed sub-block chain holding data in one block
Chain(data) == <<Len(data)>> \o data \o <<0>>

HeaderNames == {"gct", "plain"}
HeaderBytes(h) ==
    IF h = "gct"
    THEN <<71, 73, 70, 56, 57, 97, 1, 0, 1, 0, 128, 0, 0, 0, 0, 0, 0, 0, 0>>
    ELSE IF h = "gct4"
    THEN <<71, 73, 70, 56, 57, 97, 2, 0, 2, 0, 145, 1, 0>>
         \o <<0, 0, 0, 255, 0, 0, 0, 255, 0, 0, 0, 255>>
    ELSE <<71, 73, 70, 56, 55, 97, 4, 0, 4, 0, 0, 0, 0>>

\* the GraphicControl extensions of the library and their parameters
GceNames == {"g10", "gtr"}
GceParams(g) ==
    IF g = "g10"
    THEN [delay_centis |-> 10, is_transparent |-> FALSE, transparent_color_index |-> 0]
    ELSE [delay_centis |-> 266, is_transparent |-> TRUE, transparent_color_index |-> 1]

SegNames == GceNames \cup {"one", "two", "edge", "comment", "netscape", "app", "text"}
SegBytes(n) ==
    CASE n = "g10" -> <<33, 249, 4, 0, 10, 0, 0, 0>>
      [] n = "gtr" -> <<33, 249, 4, 1, 10, 1, 1, 0>>
      \* 1 x 1 at (0,0), no local table, min code size 2, chain 02 44 01 00
      [] n = "one" -> <<44, 0, 0, 0, 0, 1, 0, 1, 0, 0, 2, 2, 68, 1, 0>>
      \* 2 x 2 at (1,2), local table black/white, indices 0 1 1 0
      [] n = "two" -> <<44, 1, 0, 2, 0, 2, 0, 2, 0, 128, 0, 0, 0, 255, 255, 255, 2>>
                      \o Chain(GifLzwEncode(2, <<0, 1, 1, 0>>))
      \* 2 x 1 at (65535,0), local table, indices 1 0
      [] n = "edge" -> <<44, 255, 255, 0, 0, 2, 0, 1, 0, 128, 0, 0, 0, 255, 255, 255, 2>>
                       \o Chain(GifLzwEncode(2, <<1, 0>>))
      [] n = "comment" -> <<33, 254, 1, 65, 0>>
      [] n = "netscape" -> <<33, 255, 11>> \o B_NETSCAPE \o B_2_0 \o <<3, 1, 0, 0, 0>>
      [] n = "app" -> <<33, 255, 11, 88, 88, 88, 88, 88, 88, 88, 88, 89, 89, 89, 1, 7, 0>>
      \* a Plain Text extension (label 0x01)
      [] n = "text" -> <<33, 1, 2, 65, 66, 0>>

TailNames == {"trailer", "none", "junk"}
TailBytes(t) ==
    IF t = "trailer" THEN <<59>> ELSE IF t = "none" THEN <<>> ELSE <<59, 0>>

RECURSIVE Concat(_)
Concat(ss) == IF Len(ss) = 0 THEN <<>> ELSE ss[1] \o Concat(Drop(ss, 1))

FileBytes(f) ==
    HeaderBytes(f.header) \o Concat([i \in 1..Len(f.segs) |-> SegBytes(f.segs[i])])
    \o TailBytes(f.tail)

Init ==
    /\ mode = "gif"
    /\ NoLzw
    /\ NoUnit
    /\ \E h \in HeaderNames, segs \in SeqsUpTo(SegNames, MaxSegs), t \in TailNames :
         /\ src = [kind |-> "gif", header |-> h, segs |-> segs, tail |-> t]
         /\ gif = Gif_from_slice(FileBytes(src))
    /\ gif.k = "Ok"
    /\ it = FrameIterator_new(gif)
    /\ ret = [k |-> "New"]
    /\ frames = <<>>
    /\ drawn = [k |-> "New"]

Alive == ret.k # "Trap" /\ drawn.k # "Trap"

\* the variables after next() returned r
Yielded(r) ==
    /\ it' = IF r.k = "Trap" THEN it ELSE r.it
    /\ ret' = [k |-> r.k]
    /\ frames' = IF r.k = "Some" THEN Append(frames, r.frame) ELSE frames
    /\ drawn' = IF r.k = "Some" THEN [k |-> "New"] ELSE drawn

\* one call of frames.next()
IterNext ==
    /\ mode = "gif"
    /\ Alive
    /\ Yielded(FrameIterator_next(it, gif))
    /\ UNCHANGED <<dec, last, out, src, mode, gif, unit>>

\* frame.draw(target) on the frame next() has just yielded
Draw ==
    /\ mode = "gif"
    /\ Alive
    /\ ret.k = "Some"
    /\ drawn.k = "New"
    /\ \E checks \in BOOLEAN : drawn' = Frame_draw(frames[Len(frames)], checks)
    /\ UNCHANGED <<dec, last, out, src, mode, gif, it, ret, frames, unit>>

Next == IterNext \/ Draw

Spec == Init /\ [][Next]_vars

-----------------------------------------------------------------------------
(* The unit machine: one object of the library is driven on its own.       *)
(*   mode "view"    LenPrefixRawDataView over a sub-block chain, next()    *)
(*   mode "bits"    BitStream over a byte slice, next_bits(n)              *)
(*   mode "header"  Header::parse on a prefix of a header                  *)
(*   mode "eat"     eat_len_prefixed_subblocks on a byte string            *)

MaxBlocks == 2
MaxBlockLen == 2
MaxBitBytes == 2
MaxCalls == 4
MaxEatLen == 4

ViewBytes == {0, 2}
AfterChain == {<<>>, <<0>>, <<2, 9>>}
\* the longest block a chain can hold
LongBlock == [i \in 1..(U8 - 1) |-> i]
Blocks == SeqsUpTo(ViewBytes, MaxBlockLen) \ {<<>>}
Chains == SeqsUpTo(Blocks, MaxBlocks) \cup {<<LongBlock>>, <<LongBlock, <<2>>>>}

\* len_1 data_1 ... len_k data_k 00
RECURSIVE ChainBytes(_)
ChainBytes(blocks) ==
    IF Len(blocks) = 0 THEN <<0>>
    ELSE <<Len(blocks[1])>> \o blocks[1] \o ChainBytes(Drop(blocks, 1))

BitBytes == {0, 1, 165, 255}
Widths == {1, 4, 8, 9, 15}
EatBytes == {0, 1, 2}

InitView ==
    /\ mode = "view"
    /\ \E blocks \in Chains, after \in AfterChain :
         /\ src = [kind |-> "chain", blocks |-> blocks, after |-> after]
         /\ unit = View_new(ChainBytes(blocks) \o after).v
    /\ last = [k |-> "New"]

InitBits ==
    /\ mode = "bits"
    /\ \E data \in SeqsUpTo(BitBytes, MaxBitBytes) :
         /\ src = [kind |-> "bytes", data |-> data]
         /\ unit = BitStream_new(SeqSource(data))
    /\ last = [k |-> "New", i |-> 0, p |-> 0, q |-> 0, n |-> 0, ended |-> FALSE]

InitHeader ==
    /\ mode = "header"
    /\ \E h \in HeaderNames \cup {"gct4"} :
         \E l \in 0..Len(HeaderBytes(h)) :
             /\ src = [kind |-> "prefix", header |-> h, len |-> l]
             /\ unit = Take(HeaderBytes(h), l)
    /\ last = [k |-> "New"]

InitEat ==
    /\ mode = "eat"
    /\ src = [kind |-> "blocks"]
    /\ unit \in SeqsUpTo(EatBytes, MaxEatLen)
    /\ last = [k |-> "New"]

InitUnits ==
    /\ NoGif
    /\ dec = [k |-> "Unused"]
    /\ out = <<>>
    /\ (InitView \/ InitBits \/ InitHeader \/ InitEat)

\* one call of next() on the view
ViewNext ==
    /\ mode = "view"
    /\ last.k # "Trap"
    /\ unit' = IF View_next(unit).k = "Trap" THEN unit ELSE View_next(unit).r
    /\ last' = IF View_next(unit).k = "Some"
               THEN [k |-> "Some", val |-> View_next(unit).val]
               ELSE [k |-> View_next(unit).k]
    /\ out' = IF View_next(unit).k = "Some" THEN Append(out, View_next(unit).val) ELSE out
    /\ UNCHANGED <<dec, src, mode, gif, it, ret, frames, drawn>>

\* the i-th call next_bits(n); p is the sum of the widths asked for before,
\* q the sum of the widths of the calls before that returned bits, ended
\* tells whether an earlier call returned end
NextBits ==
    /\ mode = "bits"
    /\ last.k # "Trap"
    /\ last.i < MaxCalls
    /\ \E n \in Widths :
         /\ unit' = IF next_bits(unit, n).k = "Trap" THEN unit ELSE next_bits(unit, n).bs
         /\ last' = IF next_bits(unit, n).k = "Some"
                    THEN [k |-> "Some", val |-> next_bits(unit, n).val,
                          i |-> last.i + 1, p |-> last.p + last.n, n |-> n,
                          q |-> IF last.k = "Some" THEN last.q + last.n ELSE last.q,
                          ended |-> (last.ended \/ last.k = "None")]
                    ELSE [k |-> next_bits(unit, n).k,
                          i |-> last.i + 1, p |-> last.p + last.n, n |-> n,
                          q |-> IF last.k = "Some" THEN last.q + last.n ELSE last.q,
                          ended |-> (last.ended \/ last.k = "None")]
    /\ UNCHANGED <<dec, out, src, mode, gif, it, ret, frames, drawn>>

\* Header::parse(unit)
ParseHeader ==
    /\ mode = "header"
    /\ last.k = "New"
    /\ last' = IF Header_parse(unit).k = "Ok"
               THEN [k |-> "Ok", rest |-> Header_parse(unit).rest]
               ELSE Header_parse(unit)
    /\ UNCHANGED <<dec, out, src, mode, gif, it, ret, frames, drawn, unit>>

\* eat_len_prefixed_subblocks(unit)
EatBlocks ==
    /\ mode = "eat"
    /\ last.k = "New"
    /\ last' = eat_len_prefixed_subblocks(unit)
    /\ UNCHANGED <<dec, out, src, mode, gif, it, ret, frames, drawn, unit>>

NextUnits == ViewNext \/ NextBits \/ ParseHeader \/ EatBlocks

SpecUnits == InitUnits /\ [][NextUnits]_vars

-----------------------------------------------------------------------------
(* Properties *)

\* the GraphicControl extensions of a file, in file order
GceIndices(segs) == {i \in 1..Len(segs) : segs[i] \in GceNames}
GceCount(segs) == Cardinality(GceIndices(segs))
\* the place in segs of the k-th GraphicControl (k from 1)
KthGce(segs, k) ==
    CHOOSE i \in GceIndices(segs) : Cardinality({j \in GceIndices(segs) : j <= i}) = k

\* the input from segment i of the file on
RECURSIVE SegmentsFrom(_, _)
SegmentsFrom(f, i) ==
    IF i > Len(f.segs) THEN TailBytes(f.tail)
    ELSE SegBytes(f.segs[i]) \o SegmentsFrom(f, i + 1)

\* the iteration of a file's frames is over: next() returned None or trapped
IterationOver == ret.k \in {"None", "Trap"}

\* C1: for a valid GIF (header, GraphicControl / other extension / Image
\* segments, the trailer as last byte) calling next() until it returns None
\* yields exactly as many frames as the file has GraphicControl extensions.
C1_FrameCount ==
    (mode = "gif" /\ src.tail = "trailer" /\ IterationOver)
        => (ret.k = "None" /\ Len(frames) = GceCount(src.segs))

\* C2: for the output of a GIF LZW encoder on any index sequence, the
\* concatenation of the slices decode_next() returns until end-of-stream is
\* the encoder's input.
C2_RoundTrip ==
    (mode = "lzw" /\ src.kind = "encoded" /\ last.k \in {"None", "Err", "Trap"})
        => (last.k = "None" /\ out = src.data)

\* C3: every pixel Frame::draw pushes for an Image Block lies in the
\* rectangle of that block: left <= x < left + width, top <= y < top + height.
C3_PixelsInRect ==
    (mode = "gif" /\ drawn.k \in {"Ok", "Trap"})
        => \A i \in 1..Len(drawn.log) :
               drawn.log[i].pushed =>
                   /\ drawn.images[drawn.log[i].n + 1].left <= drawn.log[i].x
                   /\ drawn.log[i].x < drawn.images[drawn.log[i].n + 1].left
                                       + drawn.images[drawn.log[i].n + 1].width
                   /\ drawn.images[drawn.log[i].n + 1].top <= drawn.log[i].y
                   /\ drawn.log[i].y < drawn.images[drawn.log[i].n + 1].top
                                       + drawn.images[drawn.log[i].n + 1].height

\* the file of scenario 3
Scenario3 == [kind |-> "gif", header |-> "gct", segs |-> <<"g10", "one">>, tail |-> "trailer"]
Scenario3Bytes ==
    <<71, 73, 70, 56, 57, 97, 1, 0, 1, 0, 128, 0, 0>> \o <<0, 0, 0, 0, 0, 0>>
    \o <<33, 249, 4, 0, 10, 0, 0, 0>>
    \o <<44, 0, 0, 0, 0, 1, 0, 1, 0, 0>> \o <<2>> \o <<2, 68, 1, 0>> \o <<59>>

\* C4: the scenario-3 file yields exactly one frame, with delay_centis 10,
\* and drawing it pushes exactly one pixel, at (0,0) with colour (0,0,0).
C4_Scenario3 ==
    (mode = "gif" /\ src = Scenario3)
        => /\ FileBytes(src) = Scenario3Bytes
           /\ ret.k # "Trap"
           /\ ret.k = "None" => Len(frames) = 1
           /\ \A i \in 1..Len(frames) : frames[i].delay_centis = 10
           /\ drawn.k \in {"Ok", "Trap"}
                  => /\ drawn.k = "Ok"
                     /\ Len(drawn.log) = 1
                     /\ drawn.log[1].pushed
                     /\ drawn.log[1].x = 0 /\ drawn.log[1].y = 0
                     /\ drawn.log[1].color = <<0, 0, 0>>

\* C5: the k-th frame next() returns has ordinal k and carries delay_centis,
\* is_transparent and transparent_color_index of the k-th GraphicControl
\* extension of the file.
C5_FileOrder ==
    mode = "gif"
        => \A i \in 1..Len(frames) :
               /\ frames[i].frame_index = i - 1
               /\ i <= GceCount(src.segs)
               /\ [delay_centis |-> frames[i].delay_centis,
                   is_transparent |-> frames[i].is_transparent,
                   transparent_color_index |-> frames[i].transparent_color_index]
                  = GceParams(src.segs[KthGce(src.segs, i)])

\* three frames of a file whose second and third GraphicControl differ
C5_Witness ==
    /\ mode = "gif"
    /\ Len(frames) = 3
    /\ frames[2].delay_centis # frames[3].delay_centis
    /\ ret.k = "None"

\* how many entries of the log belong to images before image n
EntriesBefore(log, n) == Cardinality({i \in 1..Len(log) : log[i].n < n})

\* C6: within one Image Block the k-th index the decoder produced (k from
\* 0, transparent ones counted) has position (left + k mod width,
\* top + k div width); it is pushed unless it is the transparent index of a
\* transparency-enabled frame.
C6_RowMajor ==
    (mode = "gif" /\ drawn.k \in {"Ok", "Trap"})
        => \A i \in 1..Len(drawn.log) :
               /\ drawn.log[i].x = drawn.images[drawn.log[i].n + 1].left
                      + ((i - 1 - EntriesBefore(drawn.log, drawn.log[i].n))
                         % drawn.images[drawn.log[i].n + 1].width)
               /\ drawn.log[i].y = drawn.images[drawn.log[i].n + 1].top
                      + ((i - 1 - EntriesBefore(drawn.log, drawn.log[i].n))
                         \div drawn.images[drawn.log[i].n + 1].width)
               /\ drawn.log[i].pushed
                      <=> ~(/\ frames[Len(frames)].is_transparent
                            /\ drawn.log[i].index = frames[Len(frames)].transparent_color_index)

\* the next call of decode_next() reads a code that adds an entry: a data
\* code the table knows, a previous code being latched
ReadsAddingCode ==
    /\ dec.prev # CODE_NONE
    /\ next_bits(dec.bs, dec.code_size).k = "Some"
    /\ next_bits(dec.bs, dec.code_size).val \notin {dec.clear_code, dec.end_code}
    /\ next_bits(dec.bs, dec.code_size).val <= next_code(dec.table)

\* C7: when the table holds 4096 entries and decode_next() decodes a further
\* code that would add an entry, it returns Err(InvalidByte).
C7_OverflowIsError ==
    [][(mode = "lzw" /\ last.k # "Trap" /\ Len(dec.table.table) = MAX_ENTRIES
        /\ ReadsAddingCode)
           => (last'.k = "Err" /\ last'.err = "InvalidByte")]_vars

\* reconstruct(code) gives the string of the entry: the string of its prev
\* entry followed by its own byte
FullString(dict, code) ==
    /\ reconstruct(dict, code).k = "Ok"
    /\ IF dict.table[code + 1][1] = CODE_NONE
       THEN reconstruct(dict, code).d.buffer = <<dict.table[code + 1][2]>>
       ELSE /\ reconstruct(dict, dict.table[code + 1][1]).k = "Ok"
            /\ reconstruct(dict, code).d.buffer
               = Append(reconstruct(dict, dict.table[code + 1][1]).d.buffer,
                        dict.table[code + 1][2])

\* the codes reconstruct is asked for: the first and the latest entry and
\* the two codes past the table
ProbeCodes(dict) == {c \in {0, Len(dict.table) - 1, Len(dict.table), Len(dict.table) + 1} : c >= 0}

\* C8: reconstruct(code) returns the full byte string of every code of the
\* table (chains of up to 4096 entries) and Err(InvalidByte) for a code
\* outside the table; it never traps.
C8_ReconstructTotal ==
    (mode = "lzw" /\ last.k # "Trap")
        => \A code \in ProbeCodes(dec.table) :
               IF code < Len(dec.table.table)
               THEN FullString(dec.table, code)
               ELSE /\ reconstruct(dec.table, code).k = "Err"
                    /\ reconstruct(dec.table, code).err = "InvalidByte"

\* C9: when the file ends without a trailer, next() does not trap: it
\* yields the frames formed and then returns None.
C9_MissingTrailer ==
    (mode = "gif" /\ src.tail = "none" /\ \A i \in 1..Len(src.segs) : src.segs[i] # "text")
        => /\ ret.k # "Trap"
           /\ ret.k = "None" => Len(frames) = GceCount(src.segs)

\* C10: an extension whose label is none of 0xF9, 0xFF, 0xFE is skipped up
\* to and including the terminator of its sub-block chain and reported as an
\* Unknown/Application block, and frame iteration goes on past it.
C10_UnknownSkipped ==
    (mode = "gif" /\ ret.k # "New")
        => /\ \A i \in 1..Len(src.segs) :
                  src.segs[i] = "text"
                      => /\ Segment_parse(SegmentsFrom(src, i)).k = "Ok"
                         /\ Segment_parse(SegmentsFrom(src, i)).rest = SegmentsFrom(src, i + 1)
                         /\ Segment_parse(SegmentsFrom(src, i)).val.t = "Extension"
                         /\ Segment_parse(SegmentsFrom(src, i)).val.v.e
                                \in {"Unknown", "Application"}
           /\ src.tail # "none" => ret.k # "Trap"

\* the file has no extension of an unknown label
NoText == \A i \in 1..Len(src.segs) : src.segs[i] # "text"

\* C11: Segment::parse on the trailer byte gives Trailer only when nothing
\* follows and JunkAfterTrailerByte otherwise; a file with junk after the
\* trailer still yields the frame of its last GraphicControl, with that
\* extension's parameters, and after it next() returns None.
C11_JunkAfterTrailer ==
    (mode = "gif" /\ src.tail # "none")
        => /\ IF src.tail = "trailer"
              THEN /\ Segment_parse(TailBytes(src.tail)).k = "Ok"
                   /\ Segment_parse(TailBytes(src.tail)).val.t = "Trailer"
              ELSE /\ Segment_parse(TailBytes(src.tail)).k = "Err"
                   /\ Segment_parse(TailBytes(src.tail)).err = "JunkAfterTrailerByte"
           /\ (src.tail = "junk" /\ NoText)
                  => /\ ret.k # "Trap"
                     /\ ret.k = "None" => Len(frames) = GceCount(src.segs)
                     /\ (Len(frames) = GceCount(src.segs) /\ GceCount(src.segs) > 0)
                            => /\ frames[Len(frames)].delay_centis
                                  = GceParams(src.segs[KthGce(src.segs, Len(frames))]).delay_centis
                               /\ FrameIterator_next(it, gif).k = "None"
                               /\ FrameIterator_next(it, gif).it = it

\* the last frame of a file with junk after the trailer has been yielded and
\* next() has returned None after it
C11_Witness ==
    /\ mode = "gif"
    /\ src.tail = "junk"
    /\ NoText
    /\ Len(frames) = 2
    /\ ret.k = "None"

\* the colour table draw is to use for image img of frame f: the local one
\* when the image has it, else the global one of the frame
TableFor(f, img) ==
    IF img.local_color_table.some THEN img.local_color_table ELSE f.global_color_table

\* C12: the colour of every pushed pixel is the entry of its index in the
\* image's local colour table when it has one and else in the frame's global
\* colour table; an image with neither table does not make draw trap.
C12_ColourTables ==
    (mode = "gif" /\ drawn.k \in {"Ok", "Trap"})
        => /\ \A i \in 1..Len(drawn.log) :
                  drawn.log[i].pushed
                      => /\ TableFor(frames[Len(frames)],
                                     drawn.images[drawn.log[i].n + 1]).some
                         /\ Some(drawn.log[i].color)
                            = ColorTable_get(TableFor(frames[Len(frames)],
                                                      drawn.images[drawn.log[i].n + 1]).v,
                                             drawn.log[i].index)
           /\ (/\ Len(drawn.images) > 0
               /\ ~TableFor(frames[Len(frames)], drawn.images[Len(drawn.images)]).some)
                  => drawn.k # "Trap"

IsPrefix(a, b) == Len(a) <= Len(b) /\ a = Take(b, Len(a))

\* C13: on a well-formed chain the bytes next() returns are data_1 ++ ... ++
\* data_k in order, no more and no fewer, and then next() returns end.
C13_ViewEmitsData ==
    mode = "view"
        => /\ last.k # "Trap"
           /\ IsPrefix(out, Concat(src.blocks))
           /\ last.k = "None" => out = Concat(src.blocks)
           /\ out = Concat(src.blocks) => View_next(unit).k = "None"
           /\ out # Concat(src.blocks) => View_next(unit).k = "Some"

\* the chain of a 255-byte block and a one-byte block has been read to its end
C13_Witness ==
    /\ mode = "view"
    /\ last.k = "None"
    /\ Len(src.blocks) = 2
    /\ Len(out) = U8

\* C14: once next() has returned end it returns end ever after, and the
\* view never reads past the zero byte that ends the chain: while it holds
\* a block, what it has left to read starts with the rest of the chain.
C14_ViewEndIsFinal ==
    mode = "view"
        => /\ last.k = "None"
                  => /\ View_next(unit).k = "None"
                     /\ View_next(unit).r = unit
                     /\ out = Concat(src.blocks)
           /\ Len(unit.current_block) > 0
                  => \E j \in 1..Len(src.blocks) :
                         /\ unit.current_block = src.blocks[j]
                         /\ unit.remains = ChainBytes(Drop(src.blocks, j)) \o src.after

\* the end of a chain that is followed by other bytes has been reached
C14_Witness ==
    /\ mode = "view"
    /\ last.k = "None"
    /\ src.after = <<2, 9>>
    /\ Len(out) = 3

\* bit j of the bit string of data: bit (j mod 8) of byte (j div 8)
BitOf(data, j) == Bit(data[(j \div 8) + 1], j % 8)

\* the integer formed by bits [p, p + n) of data, the first one lowest
RECURSIVE BitsAt(_, _, _)
BitsAt(data, p, n) ==
    IF n = 0 THEN 0 ELSE BitOf(data, p) + 2 * BitsAt(data, p + 1, n - 1)

\* C15: the i-th call next_bits(n_i) returns end or the integer formed by
\* bits [p_i, p_i + n_i) of the input, p_i being the sum of the widths of
\* the calls before it; it returns end exactly when fewer than n_i bits are
\* left from p_i on.
C15_NextBits ==
    (mode = "bits" /\ last.i > 0)
        => /\ last.k \in {"Some", "None"}
           /\ last.k = "None" <=> last.p + last.n > 8 * Len(src.data)
           /\ last.k = "Some"
                  => /\ last.p + last.n <= 8 * Len(src.data)
                     /\ last.val = BitsAt(src.data, last.p, last.n)
                     /\ last.val < Pow2(last.n)

\* the bits of a byte slice a BitStream has not handed out: those left of
\* the byte it holds and those of the bytes it has not fetched
UnreadBits(bs) == (8 - bs.bit_cursor) + 8 * (Len(bs.r.data) - bs.r.pos)

\* C16: when fewer bits are left than the code being read needs, or
\* end-of-stream was returned before, decode_next() returns end-of-stream,
\* emits nothing and leaves the dictionary as it is.
C16_CleanEnd ==
    [][(/\ mode = "lzw" /\ src.kind \in {"encoded", "raw"}
        /\ last.k # "Trap"
        /\ (UnreadBits(dec.bs) < dec.code_size \/ last.k = "None"))
           => (/\ last'.k = "None"
               /\ out' = out
               /\ dec'.table = dec.table
               /\ dec'.prev = dec.prev
               /\ dec'.code_size = dec.code_size)]_vars

\* the bytes ran out in the middle of a code, after a slice was emitted
C16_Witness ==
    /\ mode = "lzw"
    /\ src.kind = "raw"
    /\ last.k = "None"
    /\ UnreadBits(dec.bs) > 0
    /\ Len(out) > 0

ImageNames == {"one", "two", "edge"}

\* the place in segs of the first GraphicControl after place i, or one past
\* the last segment
NextGce(segs, i) ==
    IF \E j \in GceIndices(segs) : j > i
    THEN CHOOSE j \in GceIndices(segs) :
             j > i /\ \A l \in GceIndices(segs) : l > i => j <= l
    ELSE Len(segs) + 1

\* the Image Blocks of the segments at places lo..hi of segs, in file order
RECURSIVE ImagesIn(_, _, _)
ImagesIn(segs, lo, hi) ==
    IF lo > hi THEN <<>>
    ELSE (IF segs[lo] \in ImageNames
          THEN <<Segment_parse(SegBytes(segs[lo])).val.v>> ELSE <<>>)
         \o ImagesIn(segs, lo + 1, hi)

\* the Image Blocks between the k-th GraphicControl and the next one
FrameImages(segs, k) ==
    ImagesIn(segs, KthGce(segs, k) + 1, NextGce(segs, KthGce(segs, k)) - 1)

\* C17: drawing the k-th frame meets, and pushes pixels for, only Image
\* Blocks between the k-th GraphicControl and the next GraphicControl (or the
\* end of the segments), in file order; a draw that ran to its end over
\* segments it can parse met all of them.
C17_DrawStaysInFrame ==
    (mode = "gif" /\ drawn.k # "New")
        => /\ Len(frames) <= GceCount(src.segs)
           /\ IsPrefix(drawn.images, FrameImages(src.segs, Len(frames)))
           /\ \A e \in 1..Len(drawn.log) : drawn.log[e].n < Len(drawn.images)
           /\ (drawn.k = "Ok" /\ \A i \in 1..Len(src.segs) : src.segs[i] # "text")
                  => drawn.images = FrameImages(src.segs, Len(frames))

\* the first frame was drawn to its end, and the file has an Image Block
\* after the second GraphicControl
C17_Witness ==
    /\ mode = "gif"
    /\ drawn.k = "Ok"
    /\ Len(frames) = 1
    /\ \E i \in 1..Len(src.segs) :
         /\ src.segs[i] \in ImageNames
         /\ i > NextGce(src.segs, KthGce(src.segs, 1))

\* C18: Header::parse of a proper prefix of a well-formed header (signature,
\* Logical Screen Descriptor and, with the global-table flag set, the colour
\* table) returns UnexpectedEndOfFile; the whole header parses.
C18_ShortHeader ==
    (mode = "header" /\ last.k # "New")
        => /\ src.len < Len(HeaderBytes(src.header))
                => (last.k = "Err" /\ last.err = "UnexpectedEndOfFile")
           /\ src.len = Len(HeaderBytes(src.header))
                => (last.k = "Ok" /\ last.rest = <<>>)

\* a header cut inside its global colour table was parsed
C18_Witness ==
    /\ mode = "header"
    /\ src.header = "gct4"
    /\ src.len >= 13
    /\ src.len < Len(HeaderBytes("gct4"))
    /\ last.k = "Err"

\* S holds the places of the length bytes of consecutive sub-blocks of input,
\* from the first byte on: every place but the last holds a non-zero length
\* and the next place lies just past that block
IsBoundaryChain(input, S) ==
    /\ 1 \in S
    /\ \A p \in S :
         \/ \A q \in S : q <= p
         \/ /\ input[p] # 0
            /\ p + input[p] + 1 \in S
            /\ \A q \in S : q <= p \/ q >= p + input[p] + 1

\* the places of the zero length bytes of input that lie at a sub-block
\* boundary with no such byte before them (none or one)
Terminators(input) ==
    {t \in 1..Len(input) :
        /\ input[t] = 0
        /\ \E S \in SUBSET (1..t) : t \in S /\ IsBoundaryChain(input, S)}

\* C19: eat_len_prefixed_subblocks returns the suffix that starts just after
\* the first zero length byte at a sub-block boundary, and UnexpectedEndOfFile
\* when the input ends before such a byte or inside a block.
C19_EatSubblocks ==
    (mode = "eat" /\ last.k # "New")
        => /\ \A t \in Terminators(unit) : last.k = "Ok" /\ last.rest = Drop(unit, t)
           /\ Terminators(unit) = {}
                => (last.k = "Err" /\ last.err = "UnexpectedEndOfFile")

\* a chain whose first block holds a zero byte was consumed entirely
C19_Witness ==
    /\ mode = "eat"
    /\ unit = <<2, 0, 1, 0>>
    /\ last.k = "Ok"
    /\ last.rest = <<>>

\* C20: after any decode_next() calls on any code stream, the entry at index
\* i of the LZW table (from 0) has a prev_code that is the sentinel or below i.
C20_TableAcyclic ==
    mode = "lzw"
        => \A i \in 1..Len(dec.table.table) :
               \/ dec.table.table[i][1] = CODE_NONE
               \/ dec.table.table[i][1] < i - 1

\* the bits a BitStream has handed out or skipped: those of the bytes it
\* fetched less those left of the byte it holds
BitsTaken(bs) == 8 * bs.r.pos - (8 - bs.bit_cursor)

\* the code_size the claim C21 expects after a decode_next() call on decoder
\* d, nb being what next_bits returns on d and ok whether the call returned
\* a slice
WidthAfter(d, nb, ok) ==
    IF nb.k # "Some" \/ ~ok THEN d.code_size
    ELSE IF nb.val = d.clear_code THEN d.min_code_size + 1
    ELSE IF nb.val = d.end_code THEN d.code_size
    ELSE IF Len(d.table.table) = Pow2(d.code_size) - 1 /\ d.code_size < 12
         THEN d.code_size + 1
    ELSE d.code_size

\* C21: a step that decodes a data code adds one to code_size iff the table
\* length before the step's push is 2^code_size - 1 and code_size < 12; the
\* step's code is read at the old width; a clear code restores
\* min_code_size + 1; nothing else changes code_size, which never exceeds 12.
C21_WidthGrowth ==
    [][mode = "lzw"
         => /\ dec'.code_size =
                   WidthAfter(dec, next_bits(dec.bs, dec.code_size), last'.k = "Some")
            /\ dec'.code_size <= 12
            /\ last'.k = "Some"
                   => BitsTaken(dec'.bs) = BitsTaken(dec.bs) + dec.code_size]_vars

\* a data code was decoded at width 12 with 4095 entries in the table
C21_Witness ==
    /\ mode = "lzw"
    /\ last.k = "Some"
    /\ dec.code_size = 12
    /\ Len(dec.table.table) = 4096

\* the table the claim C22 describes for minimum code size m: the roots
\* (none, i), then (none, 0) at the clear and the end code
ClearedTable(m) ==
    [i \in 1..(Pow2(m) + 2) |-> IF i <= Pow2(m) THEN <<CODE_NONE, i - 1>>
                                ELSE <<CODE_NONE, 0>>]

\* the code the next decode_next() call reads is c
AboutToRead(c) ==
    /\ next_bits(dec.bs, dec.code_size).k = "Some"
    /\ next_bits(dec.bs, dec.code_size).val = c

\* C22: a decode_next() call that reads the clear code returns an empty
\* slice and leaves a table of 2^min_code_size + 2 entries (the roots and two
\* (none, 0) entries), next_code() = end_code + 1, code_size =
\* min_code_size + 1 and no previous code.
C22_ClearResets ==
    [][(mode = "lzw" /\ AboutToRead(dec.clear_code))
           => /\ last' = [k |-> "Some", out |-> <<>>]
              /\ out' = out
              /\ dec'.table.table = ClearedTable(dec.min_code_size)
              /\ next_code(dec'.table) = dec.end_code + 1
              /\ dec'.code_size = dec.min_code_size + 1
              /\ dec'.prev = CODE_NONE]_vars

\* a clear code was read after three data codes, the table grown and the
\* width raised
C22_Witness ==
    /\ mode = "lzw"
    /\ src.kind = "raw"
    /\ Len(out) >= 3
    /\ last.k = "Some"
    /\ last.out = <<>>
    /\ dec.prev = CODE_NONE
    /\ dec.table.table = ClearedTable(dec.min_code_size)

\* the longest chain of entries the strings of C23 are followed along
ChainFuel == 2 * MaxSrcLen + 4

\* the byte string of a code of the table: the string of its prev entry
\* followed by its own byte; empty for a code the table does not hold
RECURSIVE EntryString(_, _, _)
EntryString(table, code, fuel) ==
    IF fuel = 0 \/ code >= Len(table) THEN <<>>
    ELSE IF table[code + 1][1] = CODE_NONE THEN <<table[code + 1][2]>>
    ELSE Append(EntryString(table, table[code + 1][1], fuel - 1), table[code + 1][2])

\* what C23 states of a step on decoder d that reads the data code c with a
\* previous code latched, w being the string the new entry starts with
\* (that of prev when c = next_code(), that of c otherwise), t the table
\* and r the result of the step
AddsEntry(d, c, w, t, p, r) ==
    /\ Len(w) > 0
    /\ r = [k |-> "Some",
            out |-> IF c = Len(d.table.table) THEN Append(w, w[1]) ELSE w]
    /\ t = Append(d.table.table, <<d.prev, w[1]>>)
    /\ p = c

\* C23: with a previous code latched, a step that reads c = next_code()
\* appends (prev, w[0]) and emits w followed by w[0], w being the string of
\* prev; a step that reads c < next_code() emits the string of c and appends
\* (prev, its first byte); either way the table grows by one entry and prev
\* becomes c.
C23_AddingSteps ==
    [][(mode = "lzw" /\ ReadsAddingCode)
           => AddsEntry(dec, next_bits(dec.bs, dec.code_size).val,
                        EntryString(dec.table.table,
                                    IF next_bits(dec.bs, dec.code_size).val
                                           = Len(dec.table.table)
                                    THEN dec.prev
                                    ELSE next_bits(dec.bs, dec.code_size).val,
                                    ChainFuel),
                        dec'.table.table, dec'.prev, last')]_vars

\* the bytes of the segments at places lo..hi of segs
RECURSIVE BytesOfSegments(_, _, _)
BytesOfSegments(segs, lo, hi) ==
    IF lo > hi THEN <<>> ELSE SegBytes(segs[lo]) \o BytesOfSegments(segs, lo + 1, hi)

\* the k-th frame was yielded by the latest next() call and its look-ahead
\* ran over segments it can parse up to a GraphicControl or the trailer
FrameYielded(k) ==
    /\ mode = "gif"
    /\ ret.k = "Some"
    /\ k = Len(frames)
    /\ k >= 1
    /\ k <= GceCount(src.segs)

\* C24 as stated: after next() yielded the k-th frame, the iterator's
\* remaining range begins at the next GraphicControl segment when there is one
\* and is empty when the look-ahead met the trailer; the frame's range runs
\* from just after its own GraphicControl up to that sentinel, which it
\* leaves out.
C24_FrameRanges ==
    \A k \in 1..MaxSegs :
        FrameYielded(k) =>
            /\ NextGce(src.segs, KthGce(src.segs, k)) <= Len(src.segs)
                   => it.remain_raw_data
                          = SegmentsFrom(src, NextGce(src.segs, KthGce(src.segs, k)))
            /\ (NextGce(src.segs, KthGce(src.segs, k)) > Len(src.segs)
                /\ src.tail = "trailer")
                   => it.remain_raw_data = <<>>
            /\ frames[k].raw_data
                   = BytesOfSegments(src.segs, KthGce(src.segs, k) + 1,
                                     NextGce(src.segs, KthGce(src.segs, k)) - 1)

\* C24, amended: after next() yielded the k-th frame whose look-ahead met a
\* following GraphicControl, the iterator's remaining range begins just after
\* the frame's own GraphicControl (line 498; the next call walks from there
\* to the following one); it is empty when the look-ahead met the trailer.
\* The frame's range runs from just after its own GraphicControl to the end
\* of the data, the sentinel and what follows it included.
C24_RangesFromOwnGce ==
    \A k \in 1..MaxSegs :
        FrameYielded(k) =>
            /\ NextGce(src.segs, KthGce(src.segs, k)) <= Len(src.segs)
                   => it.remain_raw_data = SegmentsFrom(src, KthGce(src.segs, k) + 1)
            /\ (NextGce(src.segs, KthGce(src.segs, k)) > Len(src.segs)
                /\ src.tail = "trailer")
                   => it.remain_raw_data = <<>>
            /\ frames[k].raw_data = SegmentsFrom(src, KthGce(src.segs, k) + 1)

\* the first frame was yielded, an Image Block lying between its
\* GraphicControl and the next one
C24_Witness ==
    /\ FrameYielded(1)
    /\ NextGce(src.segs, KthGce(src.segs, 1)) <= Len(src.segs)
    /\ NextGce(src.segs, KthGce(src.segs, 1)) > KthGce(src.segs, 1) + 1
    /\ src.segs[KthGce(src.segs, 1) + 1] \in ImageNames

\* the strings reconstruct returns for the codes of the set cs
Reconstructions(dict, cs) == {reconstruct(dict, c).d.buffer : c \in cs}

\* the codes of cs reconstruct returns a string for
Reconstructed(dict, cs) == {c \in cs : reconstruct(dict, c).k = "Ok"}

\* no two codes of cs are reconstructed to the same string
InjectiveOn(dict, cs) ==
    Cardinality(Reconstructions(dict, Reconstructed(dict, cs)))
        = Cardinality(Reconstructed(dict, cs))

\* the bits of the codes an LZW encoder emits for data, the end code being
\* the last of them
EncodedBits(m, data) == Len(CodeBits(EncCodes(m, data)))

\* the stream is the output of an LZW encoder and the codes read so far are
\* codes of the stream (not the bits that pad its last byte)
ValidStream ==
    /\ mode = "lzw"
    /\ src.kind = "encoded"
    /\ last.k # "Trap"
    /\ BitsTaken(dec.bs) <= EncodedBits(src.m, src.data)

C26_EndKeepsState ==
    [][(mode = "lzw" /\ AboutToRead(dec.end_code))
           => /\ last' = [k |-> "Some", out |-> <<>>]
              /\ out' = out
              /\ dec' = [dec EXCEPT !.bs = dec'.bs]
              /\ BitsTaken(dec'.bs) = BitsTaken(dec.bs) + dec.code_size]_vars

\* the end code of an encoded stream was read, a previous code being latched
\* and entries added to the table
C26_Witness ==
    /\ mode = "lzw"
    /\ src.kind = "encoded"
    /\ BitsTaken(dec.bs) = EncodedBits(src.m, src.data)
    /\ last = [k |-> "Some", out |-> <<>>]
    /\ dec.prev # CODE_NONE
    /\ Len(dec.table.table) > Pow2(dec.min_code_size) + 2

\* C27: for min_code_size in 2..8, whenever a code is about to be read after
\* a clear code, code_size = 12 or next_code() <= 2^code_size - 1, and the
\* table never holds more than 4096 entries.
C27_CodesFitWidth ==
    (mode = "lzw" /\ last.k # "Trap" /\ dec.min_code_size \in 2..8)
        => /\ dec.code_size = 12 \/ next_code(dec.table) <= Pow2(dec.code_size) - 1
           /\ dec.code_size \in (dec.min_code_size + 1)..12
           /\ Len(dec.table.table) <= 4096

\* a code is about to be read at width 11 with 2^11 - 1 entries in the table,
\* the most the width allows
C27_Witness ==
    /\ mode = "lzw"
    /\ last.k = "Some"
    /\ dec.code_size = 11
    /\ next_code(dec.table) = Pow2(11) - 1

=============================================================================
